---------------------------- MODULE Spec2Model ----------------------------
(***************************************************************************)
(* Model of wikigoapi (src/main.go): the sparse index built by loadIndex,  *)
(* the lookups fetchArticle / randomArticleHash / randomArticle, and the   *)
(* bounded decode loop of readArticle, all sharing the mutex mu.           *)
(*                                                                         *)
(* Strings are sequences of one-character strings, so that Split, Join,    *)
(* Atoi, ToLower and Title are computed character by character.            *)
(***************************************************************************)
EXTENDS Integers, Sequences, FiniteSets, TLC

\* ------------------------------------------------------------------ bounds
\* Longest index file (number of lines) the loader is run on.
MaxLines == 2
\* How many times one client calls readArticle with the same entry.
MaxCalls == 2

\* ----------------------------------------------------------------- strings
Digits == {"0", "1", "2", "3", "4", "5", "6", "7", "8", "9"}
Lower == {"a", "b", "x"}
Upper == {"A", "B", "X"}

DigitVal(c) ==
  CASE c = "0" -> 0 [] c = "1" -> 1 [] c = "2" -> 2 [] c = "3" -> 3
    [] c = "4" -> 4 [] c = "5" -> 5 [] c = "6" -> 6 [] c = "7" -> 7
    [] c = "8" -> 8 [] c = "9" -> 9

\* The byte value of a character (ASCII).
Code(c) ==
  CASE c \in Digits -> 48 + DigitVal(c)
    [] c = "a" -> 97 [] c = "b" -> 98 [] c = "x" -> 120
    [] c = "A" -> 65 [] c = "B" -> 66 [] c = "X" -> 88
    [] c = " " -> 32 [] c = ":" -> 58 [] c = "-" -> 45 [] c = "+" -> 43

\* strings.Split(s, sep) for a one-character separator: always at least one
\* part, empty parts kept.
RECURSIVE SplitFrom(_, _, _, _)
SplitFrom(s, sep, k, part) ==
  IF k > Len(s) THEN <<part>>
  ELSE IF s[k] = sep THEN <<part>> \o SplitFrom(s, sep, k + 1, <<>>)
  ELSE SplitFrom(s, sep, k + 1, Append(part, s[k]))

Split(s, sep) == SplitFrom(s, sep, 1, <<>>)

\* strings.Join(parts, sep)
RECURSIVE Join(_, _)
Join(parts, sep) ==
  IF Len(parts) = 0 THEN <<>>
  ELSE IF Len(parts) = 1 THEN parts[1]
  ELSE parts[1] \o <<sep>> \o Join(Tail(parts), sep)

RECURSIVE DigitsValue(_, _)
DigitsValue(s, acc) ==
  IF Len(s) = 0 THEN acc ELSE DigitsValue(Tail(s), acc * 10 + DigitVal(Head(s)))

\* strconv.Atoi: an optional sign, then one or more decimal digits.
Atoi(s) ==
  LET signed == Len(s) > 0 /\ s[1] \in {"+", "-"}
      body   == IF signed THEN Tail(s) ELSE s
  IN  IF Len(body) = 0 \/ \E k \in 1..Len(body) : body[k] \notin Digits
      THEN [ok |-> FALSE, val |-> 0]
      ELSE [ok |-> TRUE,
            val |-> IF signed /\ s[1] = "-" THEN 0 - DigitsValue(body, 0)
                    ELSE DigitsValue(body, 0)]

LowerOf(c) == CASE c = "A" -> "a" [] c = "B" -> "b" [] c = "X" -> "x" [] OTHER -> c
UpperOf(c) == CASE c = "a" -> "A" [] c = "b" -> "B" [] c = "x" -> "X" [] OTHER -> c

\* strings.ToLower
ToLower(s) == [k \in 1..Len(s) |-> LowerOf(s[k])]

\* strings.isSeparator: ASCII letters, digits and underscore are not
\* separators; space and the other ASCII characters are.
isSeparator(c) == c \notin (Digits \cup Lower \cup Upper \cup {"_"})

\* strings.Title: upper-case every letter that begins a word, i.e. that
\* follows a separator (the string starts after an imaginary space).
Title(s) ==
  [k \in 1..Len(s) |->
     IF (IF k = 1 THEN TRUE ELSE isSeparator(s[k - 1])) THEN UpperOf(s[k]) ELSE s[k]]

RECURSIVE Horner(_, _)
Horner(s, acc) ==
  IF Len(s) = 0 THEN acc ELSE Horner(Tail(s), acc * 131 + Code(Head(s)))

\* cityhash.Hash64([]byte(s)): a deterministic function of the bytes into
\* uint64.  The library is not part of the repository; it is stood in for by
\* the value of the bytes read as a base-131 numeral, which stays far below
\* 2^64 for the titles used here.  Under it equal hashes come from equal
\* titles only, so every overwrite in the model is one that a repeated title
\* causes under any hash function.
Hash64(s) == Horner(s, 0)

\* ------------------------------------------------------------ the archive
\* type indexEntry struct { id, seek int }
indexEntry(id, seek) == [id |-> id, seek |-> seek]

\* indexEntry{}: the zero value Go returns for a missing map key.
ZeroEntry == indexEntry(0, 0)

\* page{}: the zero value of the decoded document.  Title, NS, ID, Redirect,
\* Username and Text are modelled; RevisionID, Timestamp, UserID, Model and
\* Format are strings decoded exactly as Username and Text are.
ZeroPage ==
  [Title |-> "", NS |-> 0, ID |-> 0, Redirect |-> <<>>, Username |-> "", Text |-> ""]

\* The <page> elements stored in the archive; an element a page does not
\* hold (no <redirect>, an anonymous contributor without <username>) is a
\* field the record lacks.
Doc1 ==
  [Title |-> "ab", NS |-> 0, ID |-> 1, Redirect |-> <<"Ab">>, Username |-> "u1",
   Text |-> "t1"]
Doc2 == [Title |-> "Ab", NS |-> 0, ID |-> 2, Text |-> "t2"]

\* The multistream archive: one bzip2 block, starting at byte 10, holding
\* two pages.  No other byte offset starts a block.
Archive == <<[offset |-> 10, docs |-> <<Doc1, Doc2>>]>>

BlockOffsets == {Archive[b].offset : b \in 1..Len(Archive)}

\* The pages of the block that starts at byte o.
BlockDocs(o) == Archive[CHOOSE b \in 1..Len(Archive) : Archive[b].offset = o].docs

RECURSIVE DocsFrom(_)
DocsFrom(b) == IF b > Len(Archive) THEN <<>> ELSE Archive[b].docs \o DocsFrom(b + 1)

\* What bzip2.NewReader + xml.Decoder yield after f.Seek(seek): the pages of
\* the block starting there and of the blocks after it (compress/bzip2 reads
\* concatenated streams); nothing decodable at an offset that starts no block.
Stream(seek) ==
  IF seek \in BlockOffsets
  THEN DocsFrom(CHOOSE b \in 1..Len(Archive) : Archive[b].offset = seek)
  ELSE <<>>

\* d.Decode(&p) on an element: encoding/xml sets the fields whose elements
\* are present, leaves the others as they were, and appends to a slice field.
DecodeInto(p, doc) ==
  [f \in DOMAIN p |->
     IF f \notin DOMAIN doc THEN p[f]
     ELSE IF f = "Redirect" THEN p[f] \o doc[f]
     ELSE doc[f]]

\* -------------------------------------------------------------- index file
\* The lines an index file is made of.
LineA == <<"1", "0", ":", "1", ":", "a", "b">>
LineB == <<"1", "0", ":", "2", ":", "A", "b">>
LineC == <<"2", "0", ":", "3", ":", "b", "a">>
LineD == <<"2", "0", ":", "1", ":", "a", "b">>
LineE == <<"1", "0", ":", "3", ":", "a", ":", "b">>
LineShort == <<"1", "0", ":", "1">>
LineBadSeek == <<"1", "x", ":", "3", ":", "b", "a">>
LineBadId == <<"2", "0", ":", "x", ":", "b", "a">>

LineUniverse ==
  {LineA, LineB, LineC, LineD, LineE, LineShort, LineBadSeek, LineBadId}

IndexFiles == UNION {[1..n -> LineUniverse] : n \in 0..MaxLines}

\* The index files the two-request specification is run on.
PairIndexFiles ==
  {<<>>, <<LineA, LineB>>, <<LineB, LineA>>, <<LineA, LineShort>>}

\* One pass of the scan loop's body up to the map update (lines 72-89).
ParseLine(line) ==
  LET parts == Split(line, ":")
  IN  IF Len(parts) < 3 THEN [ok |-> FALSE, err |-> "parts"]
      ELSE LET seek == Atoi(parts[1])
               id   == Atoi(parts[2])
               title == Join(SubSeq(parts, 3, Len(parts)), ":")
           IN  IF ~seek.ok THEN [ok |-> FALSE, err |-> "atoi"]
               ELSE IF ~id.ok THEN [ok |-> FALSE, err |-> "atoi"]
               ELSE [ok |-> TRUE, title |-> title,
                     entry |-> indexEntry(id.val, seek.val),
                     titleHash |-> Hash64(title)]

\* ------------------------------------------------------------------ state
\* The request goroutines (net/http runs each handler call in its own).
Reqs == {"r1", "r2"}

\* Titles a client asks for, and entries a caller hands to readArticle
\* directly (the second one names an offset no index line mentions).
Names ==
  {<<"a", "b">>, <<"A", "b">>, <<"a", "B">>, <<"b", "a">>, <<"a", ":", "b">>,
   <<"b", "b">>}
ReadMetas == {indexEntry(7, 10), indexEntry(7, 30)}

VARIABLES
  lines,       \* the index file: the lines scanner.Scan() will yield
  pcL,         \* where the loadIndex goroutine is
  pos,         \* number of lines scanner.Scan() has yielded
  cur,         \* the parsed record of the current line (entry, titleHash)
  errL,        \* the error loadIndex returned ("" while none)
  offsets,     \* mu.offsets: map[uint64]indexEntry
  offsetSize,  \* mu.offsetSize: map[int]int
  mu,          \* holder of mu's sync.Mutex: "free", "loader" or a request
  req          \* per request goroutine: its position and locals

vars == <<lines, pcL, pos, cur, errL, offsets, offsetSize, mu, req>>

EmptyMap == [k \in {} |-> 0]
NoRecord == [entry |-> ZeroEntry, titleHash |-> 0]

\* Mutant of MapSet: a key already present keeps its value.
MapSetIfAbsent(m, k, v) == [x \in DOMAIN m \cup {k} |-> IF x \in DOMAIN m THEN m[x] ELSE v]

\* m[k] = v on a Go map.
MapSet(m, k, v) == [x \in DOMAIN m \cup {k} |-> IF x = k THEN v ELSE m[x]]

\* v := m[k] on a Go map: the zero value for a missing key, and no insertion.
MapGet(m, k, zero) == IF k \in DOMAIN m THEN m[k] ELSE zero

\* http.StatusNotFound
StatusNotFound == 404

\* statusErrorf(code, "article not found: %q", name): the status and the
\* name the message quotes.
statusErrorf(code, name) == [code |-> code, name |-> name]

\* A nil error.
NoError == [code |-> 0, name |-> <<>>]

IdleReq ==
  [pc |-> "idle", op |-> "", name |-> <<>>, hash |-> 0, meta |-> ZeroEntry,
   maxTries |-> 0, i |-> 0, decodes |-> 0, p |-> ZeroPage, res |-> "",
   err |-> NoError, calls |-> 0, prev |-> "", prevP |-> ZeroPage, late |-> FALSE]

Init ==
  /\ lines \in IndexFiles
  /\ pcL = "open"
  /\ pos = 0
  /\ cur = NoRecord
  /\ errL = ""
  /\ offsets = EmptyMap
  /\ offsetSize = EmptyMap
  /\ mu = "free"
  /\ req = [r \in {"r1"} |-> IdleReq]

\* The same program serving two requests at once.
InitPair ==
  /\ lines \in PairIndexFiles
  /\ pcL = "open"
  /\ pos = 0
  /\ cur = NoRecord
  /\ errL = ""
  /\ offsets = EmptyMap
  /\ offsetSize = EmptyMap
  /\ mu = "free"
  /\ req = [r \in Reqs |-> IdleReq]

\* ---------------------------------------------------------------- loadIndex
Loaded == pcL \in {"done", "failed"}

\* Lines 49-69: the search index is created and the index file opened.
LoadOpen ==
  /\ pcL = "open"
  /\ pcL' = "scan"
  /\ UNCHANGED <<lines, pos, cur, errL, offsets, offsetSize, mu, req>>

\* Lines 52-64: bleve.New, os.Open or pbzip2.NewReader fails.
LoadOpenFail ==
  /\ pcL = "open"
  /\ pcL' = "failed"
  /\ errL' = "open"
  /\ UNCHANGED <<lines, pos, cur, offsets, offsetSize, mu, req>>

\* Mutant of LoadScan: a malformed line empties the two maps.
LoadScanClearsOnError ==
  /\ pcL = "scan"
  /\ pos < Len(lines)
  /\ LET rec == ParseLine(lines[pos + 1])
     IN  /\ pos' = pos + 1
         /\ IF rec.ok
            THEN /\ cur' = [entry |-> rec.entry, titleHash |-> rec.titleHash]
                 /\ pcL' = "lock"
                 /\ errL' = errL
                 /\ UNCHANGED <<offsets, offsetSize>>
            ELSE /\ cur' = cur
                 /\ pcL' = "failed"
                 /\ errL' = rec.err
                 /\ offsets' = EmptyMap
                 /\ offsetSize' = EmptyMap
  /\ UNCHANGED <<lines, mu, req>>

\* Lines 71-89: the next line is scanned and parsed; a malformed line makes
\* loadIndex return its error.
LoadScan ==
  /\ pcL = "scan"
  /\ pos < Len(lines)
  /\ LET rec == ParseLine(lines[pos + 1])
     IN  /\ pos' = pos + 1
         /\ IF rec.ok
            THEN /\ cur' = [entry |-> rec.entry, titleHash |-> rec.titleHash]
                 /\ pcL' = "lock"
                 /\ errL' = errL
            ELSE /\ cur' = cur
                 /\ pcL' = "failed"
                 /\ errL' = rec.err
  /\ UNCHANGED <<lines, offsets, offsetSize, mu, req>>

\* Lines 101-109: the scanner is exhausted and loadIndex returns nil.
LoadEnd ==
  /\ pcL = "scan"
  /\ pos = Len(lines)
  /\ pcL' = "done"
  /\ UNCHANGED <<lines, pos, cur, errL, offsets, offsetSize, mu, req>>

\* Mutant of LoadLock: the loader goes on without taking the mutex.
LoadLockSkipped ==
  /\ pcL = "lock"
  /\ pcL' = "put"
  /\ UNCHANGED <<lines, pos, cur, errL, offsets, offsetSize, mu, req>>

\* Line 91: mu.Lock()
LoadLock ==
  /\ pcL = "lock"
  /\ mu = "free"
  /\ mu' = "loader"
  /\ pcL' = "put"
  /\ UNCHANGED <<lines, pos, cur, errL, offsets, offsetSize, req>>

\* Mutant of LoadPut: the mutex is released once the entry is stored.
LoadPutUnlocks ==
  /\ pcL = "put"
  /\ offsets' = MapSet(offsets, cur.titleHash, cur.entry)
  /\ mu' = "free"
  /\ pcL' = "inc"
  /\ UNCHANGED <<lines, pos, cur, errL, offsetSize, req>>

\* Mutant of LoadPut: a hash already present keeps its first entry.
LoadPutFirstWins ==
  /\ pcL = "put"
  /\ offsets' = IF cur.titleHash \in DOMAIN offsets THEN offsets
                ELSE MapSet(offsets, cur.titleHash, cur.entry)
  /\ pcL' = "inc"
  /\ UNCHANGED <<lines, pos, cur, errL, offsetSize, mu, req>>

\* Mutant of LoadPut: the map is replaced by one holding the new entry only.
LoadPutReplacesMap ==
  /\ pcL = "put"
  /\ offsets' = MapSet(EmptyMap, cur.titleHash, cur.entry)
  /\ pcL' = "inc"
  /\ UNCHANGED <<lines, pos, cur, errL, offsetSize, mu, req>>

\* Line 92: mu.offsets[titleHash] = entry
LoadPut ==
  /\ pcL = "put"
  /\ offsets' = MapSet(offsets, cur.titleHash, cur.entry)
  /\ pcL' = "inc"
  /\ UNCHANGED <<lines, pos, cur, errL, offsetSize, mu, req>>

\* Mutant of LoadInc: the count is set, not incremented.
LoadIncSetsOne ==
  /\ pcL = "inc"
  /\ offsetSize' = MapSet(offsetSize, cur.entry.seek, 1)
  /\ pcL' = "unlock"
  /\ UNCHANGED <<lines, pos, cur, errL, offsets, mu, req>>

\* Mutant of LoadInc: the count is keyed by the entry's id.
LoadIncById ==
  /\ pcL = "inc"
  /\ offsetSize' = MapSet(offsetSize, cur.entry.id,
                          MapGet(offsetSize, cur.entry.id, 0) + 1)
  /\ pcL' = "unlock"
  /\ UNCHANGED <<lines, pos, cur, errL, offsets, mu, req>>

\* Line 93: mu.offsetSize[entry.seek]++
LoadInc ==
  /\ pcL = "inc"
  /\ offsetSize' = MapSet(offsetSize, cur.entry.seek,
                          MapGet(offsetSize, cur.entry.seek, 0) + 1)
  /\ pcL' = "unlock"
  /\ UNCHANGED <<lines, pos, cur, errL, offsets, mu, req>>

\* Mutant of LoadUnlock: the loader goes on to the next line with the mutex
\* held.
LoadUnlockKeeps ==
  /\ pcL = "unlock"
  /\ pcL' = "scan"
  /\ UNCHANGED <<lines, pos, cur, errL, offsets, offsetSize, mu, req>>

\* Line 94: mu.Unlock()
LoadUnlock ==
  /\ pcL = "unlock"
  /\ mu' = "free"
  /\ pcL' = "scan"
  /\ UNCHANGED <<lines, pos, cur, errL, offsets, offsetSize, req>>

Loader ==
  \/ LoadOpen \/ LoadOpenFail \/ LoadScan \/ LoadEnd
  \/ LoadLock \/ LoadPut \/ LoadInc \/ LoadUnlock

\* ------------------------------------------------------------- the lookups
\* Mutant of fetchArticle: the second lookup's ok is not tested.
fetchArticleUnchecked(offs, name) ==
  LET exact == Hash64(name)
      norm  == Hash64(Title(ToLower(name)))
  IN  IF exact \in DOMAIN offs THEN [ok |-> TRUE, meta |-> offs[exact], err |-> NoError]
      ELSE [ok |-> TRUE, meta |-> MapGet(offs, norm, ZeroEntry), err |-> NoError]

\* Mutant of fetchArticle: the normalized title is looked up first.
fetchArticleNormFirst(offs, name) ==
  LET exact == Hash64(name)
      norm  == Hash64(Title(ToLower(name)))
  IN  IF norm \in DOMAIN offs THEN [ok |-> TRUE, meta |-> offs[norm], err |-> NoError]
      ELSE IF exact \in DOMAIN offs THEN [ok |-> TRUE, meta |-> offs[exact], err |-> NoError]
      ELSE [ok |-> FALSE, meta |-> ZeroEntry, err |-> statusErrorf(StatusNotFound, name)]

\* Mutant of fetchArticle: the fallback lower-cases the name and does not
\* title-case it.
fetchArticleLowerOnly(offs, name) ==
  LET exact == Hash64(name)
      norm  == Hash64(ToLower(name))
  IN  IF exact \in DOMAIN offs THEN [ok |-> TRUE, meta |-> offs[exact], err |-> NoError]
      ELSE IF norm \in DOMAIN offs THEN [ok |-> TRUE, meta |-> offs[norm], err |-> NoError]
      ELSE [ok |-> FALSE, meta |-> ZeroEntry, err |-> statusErrorf(StatusNotFound, name)]

\* fetchArticle's body (lines 167-175): the exact title first, then the
\* title-cased lower-cased one, else a 404 carrying the name as given.
fetchArticle(offs, name) ==
  LET exact == Hash64(name)
      norm  == Hash64(Title(ToLower(name)))
  IN  IF exact \in DOMAIN offs THEN [ok |-> TRUE, meta |-> offs[exact], err |-> NoError]
      ELSE IF norm \in DOMAIN offs THEN [ok |-> TRUE, meta |-> offs[norm], err |-> NoError]
      ELSE [ok |-> FALSE, meta |-> ZeroEntry, err |-> statusErrorf(StatusNotFound, name)]

\* Mutant of randomArticleHash: an empty map yields (0, nil).
randomArticleHashNoError(offs) ==
  IF DOMAIN offs = {} THEN {[ok |-> TRUE, hash |-> 0]}
  ELSE {[ok |-> TRUE, hash |-> h] : h \in DOMAIN offs}

\* randomArticleHash's body (lines 182-185): the outcomes "for hash := range
\* mu.offsets { return hash, nil }" can have (Go's map order is unspecified),
\* or the "no articles" error.
randomArticleHash(offs) ==
  IF DOMAIN offs = {} THEN {[ok |-> FALSE, hash |-> 0]}
  ELSE {[ok |-> TRUE, hash |-> h] : h \in DOMAIN offs}

\* Mutant of readTries: reading a missing key inserts it with count 0.
readTriesInserts(sizes, seek) ==
  [sizes |-> MapSet(sizes, seek, MapGet(sizes, seek, 0)),
   tries |-> MapGet(sizes, seek, 0)]

\* maxTries := mu.offsetSize[meta.seek] (line 139): the map after, and the
\* value read.
readTries(sizes, seek) == [sizes |-> sizes, tries |-> MapGet(sizes, seek, 0)]

\* Mutant of decodeStep: the loop runs while i <= maxTries.
decodeStepOffByOne(q) ==
  LET docs == Stream(q.meta.seek)
  IN  IF ~(q.i <= q.maxTries)
      THEN [q EXCEPT !.pc = "done", !.res = "exhausted", !.p = ZeroPage]
      ELSE IF q.decodes + 1 > Len(docs)
      THEN [q EXCEPT !.pc = "done", !.res = "decode_err", !.p = ZeroPage,
                     !.decodes = q.decodes + 1]
      ELSE LET p2 == DecodeInto(q.p, docs[q.decodes + 1])
           IN  IF p2.ID = q.meta.id
               THEN [q EXCEPT !.pc = "done", !.res = "ok", !.p = p2,
                              !.decodes = q.decodes + 1]
               ELSE [q EXCEPT !.p = p2, !.i = q.i + 1, !.decodes = q.decodes + 1]

\* Mutant of decodeStep: the id compared is that of the page decoded one
\* turn earlier.
decodeStepStaleCompare(q) ==
  LET docs == Stream(q.meta.seek)
  IN  IF ~(q.i < q.maxTries)
      THEN [q EXCEPT !.pc = "done", !.res = "exhausted", !.p = ZeroPage]
      ELSE IF q.decodes + 1 > Len(docs)
      THEN [q EXCEPT !.pc = "done", !.res = "decode_err", !.p = ZeroPage,
                     !.decodes = q.decodes + 1]
      ELSE LET p2 == DecodeInto(q.p, docs[q.decodes + 1])
           IN  IF q.p.ID = q.meta.id
               THEN [q EXCEPT !.pc = "done", !.res = "ok", !.p = p2,
                              !.decodes = q.decodes + 1]
               ELSE [q EXCEPT !.p = p2, !.i = q.i + 1, !.decodes = q.decodes + 1]

\* One iteration of readArticle's loop (lines 151-160), for a request whose
\* locals are q: the loop ends with "failed to find page" when i reaches
\* maxTries; else the next page is decoded into p, a decode error is
\* returned, and a page with the wanted id is returned.
decodeStep(q) ==
  LET docs == Stream(q.meta.seek)
  IN  IF ~(q.i < q.maxTries)
      THEN [q EXCEPT !.pc = "done", !.res = "exhausted", !.p = ZeroPage]
      ELSE IF q.decodes + 1 > Len(docs)
      THEN [q EXCEPT !.pc = "done", !.res = "decode_err", !.p = ZeroPage,
                     !.decodes = q.decodes + 1]
      ELSE LET p2 == DecodeInto(q.p, docs[q.decodes + 1])
           IN  IF p2.ID = q.meta.id
               THEN [q EXCEPT !.pc = "done", !.res = "ok", !.p = p2,
                              !.decodes = q.decodes + 1]
               ELSE [q EXCEPT !.p = p2, !.i = q.i + 1, !.decodes = q.decodes + 1]

\* ----------------------------------------------------- request goroutines
LoaderVars == <<lines, pcL, pos, cur, errL>>

\* A client starts a call: the /search handler (lines 227-255) with query q,
\* randomArticle, randomArticleHash alone, or readArticle on a given entry.
Issue(r) ==
  /\ req[r].pc = "idle"
  /\ \/ \E name \in Names :
          req' = [req EXCEPT ![r] = [@ EXCEPT !.pc = "fetch_lock", !.op = "search",
                                             !.name = name, !.late = Loaded]]
     \/ \E op \in {"random", "hash"} :
          req' = [req EXCEPT ![r] = [@ EXCEPT !.pc = "hash_lock", !.op = op,
                                             !.late = Loaded]]
     \/ \E meta \in ReadMetas :
          req' = [req EXCEPT ![r] = [@ EXCEPT !.pc = "read_lock", !.op = "read",
                                             !.meta = meta, !.late = Loaded]]
  /\ UNCHANGED <<LoaderVars, offsets, offsetSize, mu>>

\* mu.Lock() of a request at pc `at` (lines 138, 164, 179, 194).
Acquire(r, at, next) ==
  /\ req[r].pc = at
  /\ mu = "free"
  /\ mu' = r
  /\ req' = [req EXCEPT ![r].pc = next]
  /\ UNCHANGED <<LoaderVars, offsets, offsetSize>>

FetchLock(r) == Acquire(r, "fetch_lock", "fetch")
HashLock(r) == Acquire(r, "hash_lock", "hash")
GetLock(r) == Acquire(r, "get_lock", "get")
ReadLock(r) == Acquire(r, "read_lock", "read_size")

\* Lines 167-175 and the deferred mu.Unlock(); on an error the handler
\* returns (lines 229-232), else it goes on to readArticle.
FetchBody(r) ==
  /\ req[r].pc = "fetch"
  /\ LET got == fetchArticle(offsets, req[r].name)
     IN  req' = [req EXCEPT ![r] =
                   IF got.ok THEN [@ EXCEPT !.pc = "read_lock", !.meta = got.meta]
                   ELSE [@ EXCEPT !.pc = "done", !.res = "notfound", !.err = got.err]]
  /\ mu' = "free"
  /\ UNCHANGED <<LoaderVars, offsets, offsetSize>>

\* Lines 182-185 and the deferred mu.Unlock(); randomArticle returns the
\* error (lines 189-192) or goes on to its second critical section.
HashBody(r) ==
  /\ req[r].pc = "hash"
  /\ \E got \in randomArticleHash(offsets) :
       req' = [req EXCEPT ![r] =
                 IF ~got.ok THEN [@ EXCEPT !.pc = "done", !.res = "noarticles"]
                 ELSE IF req[r].op = "hash"
                 THEN [@ EXCEPT !.pc = "done", !.res = "ok", !.hash = got.hash]
                 ELSE [@ EXCEPT !.pc = "get_lock", !.hash = got.hash]]
  /\ mu' = "free"
  /\ UNCHANGED <<LoaderVars, offsets, offsetSize>>

\* Lines 195-196: meta := mu.offsets[hash]; mu.Unlock()
GetBody(r) ==
  /\ req[r].pc = "get"
  /\ req' = [req EXCEPT ![r] =
               [@ EXCEPT !.pc = "read_lock",
                         !.meta = MapGet(offsets, req[r].hash, ZeroEntry)]]
  /\ mu' = "free"
  /\ UNCHANGED <<LoaderVars, offsets, offsetSize>>

\* Mutant of ReadSize: the mutex is kept while the archive is read.
ReadSizeKeepsLock(r) ==
  /\ req[r].pc = "read_size"
  /\ LET got == readTries(offsetSize, req[r].meta.seek)
     IN  /\ req' = [req EXCEPT ![r] = [@ EXCEPT !.pc = "seek", !.maxTries = got.tries]]
         /\ offsetSize' = got.sizes
  /\ UNCHANGED <<LoaderVars, offsets, mu>>

\* Lines 139-140: maxTries := mu.offsetSize[meta.seek]; mu.Unlock()
ReadSize(r) ==
  /\ req[r].pc = "read_size"
  /\ LET got == readTries(offsetSize, req[r].meta.seek)
     IN  /\ req' = [req EXCEPT ![r] = [@ EXCEPT !.pc = "seek", !.maxTries = got.tries]]
         /\ offsetSize' = got.sizes
  /\ mu' = "free"
  /\ UNCHANGED <<LoaderVars, offsets>>

\* Mutant of Seek: the decoder and page of the call before are kept.
SeekKeepsDecoder(r) ==
  /\ req[r].pc = "seek"
  /\ req' = [req EXCEPT ![r] =
               IF req[r].meta.seek < 0 THEN [@ EXCEPT !.pc = "done", !.res = "seek_err"]
               ELSE [@ EXCEPT !.pc = "decode"]]
  /\ UNCHANGED <<LoaderVars, offsets, offsetSize, mu>>

\* Lines 142-150: f.Seek(meta.seek, 0), which fails for a negative offset,
\* and the decoder and the page it will fill.
Seek(r) ==
  /\ req[r].pc = "seek"
  /\ req' = [req EXCEPT ![r] =
               IF req[r].meta.seek < 0 THEN [@ EXCEPT !.pc = "done", !.res = "seek_err"]
               ELSE [@ EXCEPT !.pc = "decode", !.i = 0, !.decodes = 0, !.p = ZeroPage]]
  /\ UNCHANGED <<LoaderVars, offsets, offsetSize, mu>>

\* Lines 151-160: one turn of the loop.
Decode(r) ==
  /\ req[r].pc = "decode"
  /\ req' = [req EXCEPT ![r] = decodeStep(req[r])]
  /\ UNCHANGED <<LoaderVars, offsets, offsetSize, mu>>

ReadResults == {"ok", "decode_err", "exhausted", "seek_err"}

\* The caller hands the same entry to readArticle once more, keeping what
\* the call before returned.
Repeat(r) ==
  /\ req[r].pc = "done"
  /\ req[r].op \in {"search", "random", "read"}
  /\ req[r].res \in ReadResults
  /\ req[r].calls + 1 < MaxCalls
  /\ req' = [req EXCEPT ![r] =
               [@ EXCEPT !.pc = "read_lock", !.calls = @ + 1, !.prev = req[r].res,
                         !.prevP = req[r].p, !.res = ""]]
  /\ UNCHANGED <<LoaderVars, offsets, offsetSize, mu>>

Request(r) ==
  \/ Issue(r)
  \/ FetchLock(r) \/ FetchBody(r)
  \/ HashLock(r) \/ HashBody(r)
  \/ GetLock(r) \/ GetBody(r)
  \/ ReadLock(r) \/ ReadSize(r)
  \/ Seek(r) \/ Decode(r)
  \/ Repeat(r)

Next == Loader \/ \E r \in DOMAIN req : Request(r)

Spec == Init /\ [][Next]_vars

SpecPair == InitPair /\ [][Next]_vars

\* Two requests served while an index file of two lines is loaded, the
\* second line well-formed or not.
InitFair ==
  /\ lines \in {<<LineA, LineB>>, <<LineA, LineShort>>}
  /\ pcL = "open"
  /\ pos = 0
  /\ cur = NoRecord
  /\ errL = ""
  /\ offsets = EmptyMap
  /\ offsetSize = EmptyMap
  /\ mu = "free"
  /\ req = [r \in Reqs |-> IdleReq]

\* The steps a goroutine takes while it holds the mutex or reads the archive:
\* the Go scheduler runs every runnable goroutine, so each is taken once it
\* stays enabled.
LoaderLocked == LoadPut \/ LoadInc \/ LoadUnlock

RequestSteps(r) ==
  FetchBody(r) \/ HashBody(r) \/ GetBody(r) \/ ReadSize(r) \/ Seek(r) \/ Decode(r)

\* mu.Lock() of a request: fair lock acquisition, a goroutine that finds the
\* mutex free again and again obtains it.
RequestLocks(r) == FetchLock(r) \/ HashLock(r) \/ GetLock(r) \/ ReadLock(r)

\* The two goroutines of requests with the loader of lines 221-225, which
\* may take any time over the index file between two records (no fairness
\* on its steps outside the mutex) and is not assumed to finish.
SpecFair ==
  /\ InitFair /\ [][Next]_vars
  /\ WF_vars(LoaderLocked)
  /\ \A r \in Reqs : WF_vars(RequestSteps(r)) /\ SF_vars(RequestLocks(r))

\* ------------------------------------------------- vocabulary of the claims
\* The parsed record of the k-th line of the index file.
Rec(k) == ParseLine(lines[k])

\* Number of records the loader has inserted into both maps.
Processed ==
  IF pcL = "open" \/ errL = "open" THEN 0
  ELSE IF pcL \in {"lock", "put", "inc", "failed"} THEN pos - 1
  ELSE pos

AllValid == \A k \in 1..Len(lines) : Rec(k).ok

\* The request has returned from fetchArticle.
Fetched(r) ==
  req[r].op = "search" /\ req[r].pc \notin {"idle", "fetch_lock", "fetch"}

\* The last line of the file whose title hashes to h.
LastWithHash(h) ==
  CHOOSE k \in 1..Len(lines) :
    /\ Rec(k).titleHash = h
    /\ \A j \in (k + 1)..Len(lines) : Rec(j).titleHash # h

\* Number of entries of mu.offsets whose seek is o.
EntriesAt(o) == Cardinality({h \in DOMAIN offsets : offsets[h].seek = o})

SeeksSeen == DOMAIN offsetSize \cup {offsets[h].seek : h \in DOMAIN offsets}

\* ------------------------------------------------------------------ claims
\* C1 (as stated): once loadIndex has processed a file of valid lines,
\* fetchArticle(title), for the title of any line, returns that line's id
\* and offset.
C1_FetchReturnsItsLine ==
  \A r \in DOMAIN req : \A k \in 1..Len(lines) :
    (pcL = "done" /\ req[r].late /\ Fetched(r) /\ req[r].name = Rec(k).title)
      => (req[r].res # "notfound" /\ req[r].meta = Rec(k).entry)

\* C1 (amended): once loadIndex has processed a file of valid lines,
\* fetchArticle(title), for the title of any line, succeeds and returns the
\* id and offset of the last line of the file whose title has the same hash.
C1_FetchReturnsLastLine ==
  \A r \in DOMAIN req : \A k \in 1..Len(lines) :
    (pcL = "done" /\ req[r].late /\ Fetched(r) /\ req[r].name = Rec(k).title)
      => (/\ req[r].res # "notfound"
          /\ req[r].meta = Rec(LastWithHash(Hash64(req[r].name))).entry)

\* C1 witness: a lookup after the load of a title whose line was followed by
\* another line with the same hash, answered with the later line's entry.
C1_Witness ==
  \E r \in DOMAIN req : \E k \in 1..Len(lines) :
    /\ pcL = "done" /\ req[r].late /\ Fetched(r)
    /\ req[r].name = Rec(k).title
    /\ LastWithHash(Hash64(req[r].name)) > k
    /\ req[r].meta = Rec(LastWithHash(Hash64(req[r].name))).entry
    /\ req[r].meta # Rec(k).entry

\* C2 (as stated): whenever the lock is free, offsetSize[o] equals the
\* number of entries of offsets whose seek is o, for every offset o.
C2_SizeEqualsEntries ==
  mu = "free" => \A o \in SeeksSeen : MapGet(offsetSize, o, 0) = EntriesAt(o)

\* The records inserted so far have pairwise distinct title hashes.
DistinctHashes ==
  \A j, k \in 1..Processed : j # k => Rec(j).titleHash # Rec(k).titleHash

\* C2 (amended): whenever the lock is free, offsetSize[o] is at least the
\* number of entries of offsets whose seek is o, and equals it when no two
\* of the records inserted so far have the same title hash.
C2_SizeCoversEntries ==
  mu = "free" =>
    \A o \in SeeksSeen :
      /\ MapGet(offsetSize, o, 0) >= EntriesAt(o)
      /\ DistinctHashes => MapGet(offsetSize, o, 0) = EntriesAt(o)

\* C2 witness: the lock is free in the middle of a load that has overwritten
\* an entry, so that a count exceeds the entries at its offset.
C2_Witness ==
  /\ mu = "free" /\ pcL = "scan" /\ Processed = 2
  /\ ~DistinctHashes
  /\ \E o \in SeeksSeen : MapGet(offsetSize, o, 0) > EntriesAt(o)

\* C3: a fetchArticle that runs while loadIndex runs returns Not-Found or the
\* (id, seek) of one record the loader has already inserted, never a mix of
\* two records nor a zero entry.
C3_FetchSeesWholeRecords ==
  [][\A r \in DOMAIN req :
       FetchBody(r) =>
         \/ req'[r].pc = "done" /\ req'[r].res = "notfound"
         \/ /\ req'[r].pc = "read_lock"
            /\ \E k \in 1..Processed : req'[r].meta = Rec(k).entry]_vars

\* C3 witness: a lookup issued and answered with an entry while the loader
\* still has lines to read.
C3_Witness ==
  \E r \in DOMAIN req :
    /\ Fetched(r) /\ ~req[r].late /\ req[r].pc = "read_lock" /\ req[r].calls = 0
    /\ pcL \in {"scan", "lock"} /\ Processed >= 1 /\ Processed < Len(lines)
    /\ \E k \in 1..Processed : req[r].meta = Rec(k).entry

\* C4: a reader holding the mutex sees, for every entry of offsets, a count
\* of at least 1 at the entry's offset.
C4_ReaderSeesCountedEntries ==
  mu \in DOMAIN req =>
    \A h \in DOMAIN offsets : MapGet(offsetSize, offsets[h].seek, 0) >= 1

\* C4 witness: a reader holds the mutex, with entries in the index, while
\* the loader waits for it with its next record.
C4_Witness ==
  mu \in DOMAIN req /\ pcL = "lock" /\ DOMAIN offsets # {}

\* The request has returned from readArticle.
ReadDone(r) ==
  /\ req[r].pc = "done"
  /\ req[r].op \in {"search", "random", "read"}
  /\ req[r].res \in ReadResults

\* C5: a page readArticle returns has the wanted id; and when the block
\* holds k pages, none with the wanted id, and the count read is k, the
\* call fails with "failed to find page" after k decodes.
C5_NoFalseMatch ==
  \A r \in DOMAIN req :
    ReadDone(r) =>
      /\ req[r].res = "ok" => req[r].p.ID = req[r].meta.id
      /\ ( /\ req[r].meta.seek \in BlockOffsets
           /\ req[r].maxTries = Len(BlockDocs(req[r].meta.seek))
           /\ \A d \in 1..Len(BlockDocs(req[r].meta.seek)) :
                BlockDocs(req[r].meta.seek)[d].ID # req[r].meta.id )
          => (req[r].res = "exhausted" /\ req[r].decodes = req[r].maxTries)

\* C5 witness: a /search request whose entry names the two-page block and
\* an id neither page has, failed after two decodes.
C5_Witness ==
  \E r \in DOMAIN req :
    /\ ReadDone(r) /\ req[r].op = "search"
    /\ req[r].meta.seek = 10 /\ req[r].meta.id = 3
    /\ req[r].maxTries = 2 /\ req[r].decodes = 2 /\ req[r].res = "exhausted"

\* The index file matches the archive: every line is valid, every page of
\* every block has exactly one line with the block's offset and the page's
\* id, and every line names such a page.
Matching ==
  /\ AllValid
  /\ \A b \in 1..Len(Archive) : \A d \in 1..Len(Archive[b].docs) :
       Cardinality({k \in 1..Len(lines) :
                     Rec(k).entry = indexEntry(Archive[b].docs[d].ID, Archive[b].offset)}) = 1
  /\ \A k \in 1..Len(lines) :
       \E b \in 1..Len(Archive) : \E d \in 1..Len(Archive[b].docs) :
         Rec(k).entry = indexEntry(Archive[b].docs[d].ID, Archive[b].offset)

\* The two maps a complete pass over the index file builds.
BuiltOffsets ==
  [h \in {Rec(k).titleHash : k \in 1..Len(lines)} |-> Rec(LastWithHash(h)).entry]
BuiltSizes ==
  [o \in {Rec(k).entry.seek : k \in 1..Len(lines)} |->
     Cardinality({k \in 1..Len(lines) : Rec(k).entry.seek = o})]

\* C6: with an index that matches the archive, after the build readArticle
\* on an entry of offsets returns the page with the entry's id, a second call
\* with the same entry returns the same, and the maps are as the build left
\* them.
C6_RoundTrip ==
  \A r \in DOMAIN req :
    ( /\ pcL = "done" /\ Matching /\ req[r].late /\ ReadDone(r)
      /\ \E h \in DOMAIN offsets : offsets[h] = req[r].meta )
    => /\ req[r].res = "ok" /\ req[r].p.ID = req[r].meta.id
       /\ req[r].calls >= 1 => (req[r].prev = req[r].res /\ req[r].prevP = req[r].p)
       /\ offsets = BuiltOffsets /\ offsetSize = BuiltSizes

\* C6 witness: the second page of the block read twice, after the build of
\* a matching index.
C6_Witness ==
  \E r \in DOMAIN req :
    /\ pcL = "done" /\ Matching /\ req[r].late /\ ReadDone(r)
    /\ req[r].meta = indexEntry(2, 10) /\ req[r].calls = 1
    /\ req[r].res = "ok" /\ req[r].prev = "ok" /\ req[r].decodes = 2

\* C7: when hash(name) is a key of offsets, fetchArticle returns the entry
\* stored under it, whatever is stored under the normalized title's hash.
C7_ExactFirst ==
  [][\A r \in DOMAIN req :
       (FetchBody(r) /\ Hash64(req[r].name) \in DOMAIN offsets)
         => /\ req'[r].pc = "read_lock"
            /\ req'[r].meta = offsets[Hash64(req[r].name)]]_vars

\* C7 witness: both the name and its normalized form are keys, with
\* different entries, and the lookup returned the entry of the name.
C7_Witness ==
  \E r \in DOMAIN req :
    LET exact == Hash64(req[r].name)
        norm  == Hash64(Title(ToLower(req[r].name)))
    IN  /\ Fetched(r) /\ req[r].late /\ req[r].pc = "read_lock" /\ req[r].calls = 0
        /\ exact # norm
        /\ exact \in DOMAIN offsets /\ norm \in DOMAIN offsets
        /\ offsets[exact] # offsets[norm]
        /\ req[r].meta = offsets[exact]

\* C8: on an empty offsets randomArticleHash, and randomArticle with it,
\* return the "no articles" error and nothing else; on a non-empty one the
\* hash returned is a key of offsets.
C8_RandomOnEmpty ==
  [][\A r \in DOMAIN req :
       HashBody(r) =>
         IF DOMAIN offsets = {}
         THEN /\ req'[r].pc = "done" /\ req'[r].res = "noarticles"
              /\ req'[r].hash = req[r].hash /\ req'[r].meta = req[r].meta
              /\ req'[r].p = req[r].p
         ELSE /\ req'[r].res # "noarticles"
              /\ req'[r].hash \in DOMAIN offsets]_vars

\* C8 witness: randomArticle has returned "no articles" after a build that
\* failed before inserting anything.
C8_Witness ==
  \E r \in DOMAIN req :
    /\ req[r].op = "random" /\ req[r].pc = "done" /\ req[r].res = "noarticles"
    /\ req[r].late /\ pcL = "failed" /\ DOMAIN offsets = {}

\* C9: after loadIndex has returned the error of a malformed line, a lookup
\* of the title of a line before it does not succeed.
C9_NoPartialIndex ==
  \A r \in DOMAIN req : \A k \in 1..(pos - 1) :
    ( /\ pcL = "failed" /\ errL # "open" /\ req[r].late /\ Fetched(r)
      /\ req[r].name = Rec(k).title )
    => req[r].res = "notfound"

\* C10: a step of a lookup (fetchArticle, randomArticleHash, randomArticle,
\* readArticle, whatever its outcome) changes neither map, nothing of the
\* loader, and nothing of another request.
C10_LookupsLeaveIndexAlone ==
  [][\A r \in DOMAIN req :
       Request(r) =>
         /\ offsets' = offsets /\ offsetSize' = offsetSize
         /\ UNCHANGED LoaderVars
         /\ \A o \in DOMAIN req \ {r} : req'[o] = req[o]]_vars

\* C10 witness: readArticle on an offset the index does not know has failed
\* after 0 tries, no key was inserted, and another request is decoding.
C10_Witness ==
  \E r \in DOMAIN req : \E o \in DOMAIN req \ {r} :
    /\ req[r].op = "read" /\ req[r].pc = "done" /\ req[r].meta.seek = 30
    /\ req[r].res = "exhausted" /\ req[r].maxTries = 0
    /\ 30 \notin DOMAIN offsetSize /\ DOMAIN offsetSize # {}
    /\ req[o].pc = "decode"

\* C11: after loadIndex has processed a file of valid lines, offsetSize[o]
\* is the number of lines whose offset is o, for every offset o of a line,
\* and offsetSize has no other key.
C11_SizeCountsRecords ==
  pcL = "done" => offsetSize = BuiltSizes

\* C11 witness: a complete load of two lines with the same offset and the
\* same title, which leaves one entry and a count of 2.
C11_Witness ==
  /\ pcL = "done" /\ Len(lines) = 2
  /\ \E o \in DOMAIN offsetSize : offsetSize[o] = 2 /\ EntriesAt(o) = 1

\* C12: when hash(name) is no key of offsets, fetchArticle returns the entry
\* stored under the hash of the title-cased lower-cased name if that is a
\* key, and else a 404 Not-Found error that carries the name as given.
C12_NormalizedFallback ==
  [][\A r \in DOMAIN req :
       (FetchBody(r) /\ Hash64(req[r].name) \notin DOMAIN offsets)
         => LET norm == Hash64(Title(ToLower(req[r].name)))
            IN  IF norm \in DOMAIN offsets
                THEN /\ req'[r].pc = "read_lock"
                     /\ req'[r].meta = offsets[norm]
                     /\ req'[r].err = NoError
                ELSE /\ req'[r].pc = "done" /\ req'[r].res = "notfound"
                     /\ req'[r].err = [code |-> 404, name |-> req[r].name]]_vars

\* C12 witness: the query "aB", no key itself, answered with the entry of
\* the indexed title "Ab".
C12_Witness ==
  \E r \in DOMAIN req :
    /\ Fetched(r) /\ req[r].late /\ req[r].pc = "read_lock" /\ req[r].calls = 0
    /\ req[r].name = <<"a", "B">>
    /\ Hash64(req[r].name) \notin DOMAIN offsets
    /\ Hash64(<<"A", "b">>) \in DOMAIN offsets
    /\ req[r].meta = offsets[Hash64(<<"A", "b">>)]

\* C13: on every step of the loader and of every request, each key of
\* offsets and of offsetSize stays a key, no value of offsetSize decreases,
\* and the maps change in loadIndex's two writes only.
C13_AppendOnly ==
  [][/\ DOMAIN offsets \subseteq DOMAIN offsets'
     /\ \A o \in DOMAIN offsetSize :
          o \in DOMAIN offsetSize' /\ offsetSize'[o] >= offsetSize[o]
     /\ (offsets' # offsets \/ offsetSize' # offsetSize)
          => (pcL \in {"put", "inc"} /\ pcL' # pcL /\ req' = req)]_vars

\* C13 witness: the loader has stored a second title next to the first and
\* has raised their block's count from 1 to 2, while a request is reading
\* the archive.
C13_Witness ==
  /\ pcL = "unlock" /\ pos = 2
  /\ DOMAIN offsets = {Rec(1).titleHash, Rec(2).titleHash}
  /\ Rec(1).titleHash # Rec(2).titleHash
  /\ offsetSize[cur.entry.seek] = 2
  /\ \E r \in DOMAIN req : req[r].pc = "decode"

\* C14: the loader holds the mutex only between the lock and the unlock of
\* one record (lines 91-94), and under fair lock acquisition every call of
\* fetchArticle, randomArticle or readArticle that has started completes,
\* whether or not the loader ever finishes its pass.
C14_LookupsNotStarved ==
  /\ [](mu = "loader" <=> pcL \in {"put", "inc", "unlock"})
  /\ \A r \in Reqs : (req[r].pc \notin {"idle", "done"}) ~> (req[r].pc = "done")

\* C14 witness: a call issued during the load has completed with a page
\* while the loader, one record stored, has not reached the second.
C14_Witness ==
  \E r \in DOMAIN req :
    /\ req[r].pc = "done" /\ req[r].res = "ok" /\ ~req[r].late
    /\ pcL \in {"scan", "lock"} /\ Processed = 1 /\ Len(lines) = 2

\* The request is in readArticle's loop or has returned from it.
InLoop(r) == req[r].pc = "decode" \/ (ReadDone(r) /\ req[r].res # "seek_err")

\* C15: readArticle decodes at most maxTries pages, maxTries being the
\* count read under the lock, and none after a page with the wanted id;
\* with pages 1 and 2 in the block and a count of 2, page 1 is found with
\* one decode and page 2 with two.
C15_BoundedDecodes ==
  \A r \in DOMAIN req :
    InLoop(r) =>
      LET q == req[r]
          docs == Stream(q.meta.seek)
      IN  /\ q.decodes <= q.maxTries
          /\ \A j \in 1..(q.decodes - 1) : j <= Len(docs) => docs[j].ID # q.meta.id
          /\ (q.pc = "decode" /\ q.decodes >= 1 /\ q.decodes <= Len(docs))
               => docs[q.decodes].ID # q.meta.id
          /\ (q.pc = "done" /\ q.meta.seek = 10 /\ q.maxTries = 2)
               => /\ q.meta.id = 1 => (q.res = "ok" /\ q.decodes = 1)
                  /\ q.meta.id = 2 => (q.res = "ok" /\ q.decodes = 2)

\* C15 witness: with a count of 2, page 1 located by one decode.
C15_Witness ==
  \E r \in DOMAIN req :
    /\ ReadDone(r) /\ req[r].res = "ok" /\ req[r].maxTries = 2
    /\ req[r].meta = indexEntry(1, 10) /\ req[r].decodes = 1

\* C16: a request holds the mutex exactly while it reads the maps (lines
\* 139, 167-175, 182-185, 195); it never holds it when it is about to seek
\* or decode, nor between fetchArticle's or randomArticle's lookup and
\* readArticle; and the loader holds it for its two map writes only.
C16_NoLockDuringIO ==
  /\ mu = "loader" => pcL \in {"put", "inc", "unlock"}
  /\ \A r \in DOMAIN req :
       /\ mu = r <=> req[r].pc \in {"fetch", "hash", "get", "read_size"}
       /\ req[r].pc \in {"read_lock", "seek", "decode"} => mu # r

\* C16 witness: one request decodes pages while the other holds the mutex
\* for a lookup.
C16_Witness ==
  \E r, s \in DOMAIN req :
    /\ req[r].pc = "decode" /\ req[r].decodes = 1
    /\ req[s].pc = "fetch" /\ mu = s

\* C17: the page readArticle returns is the page with the wanted id as the
\* archive stores it, each field that of the stored page and no field or
\* redirect of a page decoded before it.
C17_ExactDocument ==
  \A r \in DOMAIN req :
    (ReadDone(r) /\ req[r].res = "ok")
      => req[r].p = DecodeInto(ZeroPage, Stream(req[r].meta.seek)[req[r].decodes])

\* The last of the first n lines whose title hashes to h.
LastAmong(n, h) ==
  CHOOSE k \in 1..n :
    /\ Rec(k).titleHash = h
    /\ \A j \in (k + 1)..n : Rec(j).titleHash # h

\* C18: when the loader has processed two records whose titles have the
\* same hash, offsets holds under that hash the id and offset of the later
\* one, and one entry for each distinct hash; and offsetSize has been
\* incremented once for every record processed, those two included.
C18_LastWriteWins ==
  (mu # "loader") =>
    /\ \A j, k \in 1..Processed :
         (j < k /\ Rec(j).titleHash = Rec(k).titleHash)
           => /\ Rec(k).titleHash \in DOMAIN offsets
              /\ offsets[Rec(k).titleHash] = Rec(LastAmong(Processed, Rec(k).titleHash)).entry
    /\ DOMAIN offsets = {Rec(k).titleHash : k \in 1..Processed}
    /\ \A o \in {Rec(k).entry.seek : k \in 1..Processed} :
         /\ o \in DOMAIN offsetSize
         /\ offsetSize[o] = Cardinality({k \in 1..Processed : Rec(k).entry.seek = o})

\* C18 witness: two records with the title "ab", the first in the block at
\* 10 and the second in the block at 20; the one entry is the second's and
\* each block has a count of 1.
C18_Witness ==
  /\ pcL = "done" /\ Processed = 2
  /\ Rec(1).titleHash = Rec(2).titleHash /\ Rec(1).entry # Rec(2).entry
  /\ Cardinality(DOMAIN offsets) = 1
  /\ offsets[Rec(2).titleHash] = Rec(2).entry
  /\ offsetSize[Rec(1).entry.seek] = 1 /\ offsetSize[Rec(2).entry.seek] = 1

\* C19: the second critical section of randomArticle (line 195) finds the
\* key that randomArticleHash chose: the entry it hands to readArticle is
\* the one stored under that key at that moment, the entry of a record the
\* loader has inserted, and never the zero entry of a missing key.
C19_SecondReadFindsKey ==
  [][\A r \in DOMAIN req :
       GetBody(r)
         => /\ req[r].hash \in DOMAIN offsets
            /\ req'[r].meta = offsets[req[r].hash]
            /\ req'[r].meta # ZeroEntry
            /\ \E k \in 1..pos : Rec(k).ok /\ Rec(k).titleHash = req[r].hash
                                 /\ Rec(k).entry = req'[r].meta]_vars

\* C19 witness: randomArticle, called during the load of two records with
\* one title, is about to read the archive with the entry of the second.
C19_Witness ==
  \E r \in DOMAIN req :
    /\ req[r].op = "random" /\ req[r].pc = "read_lock" /\ req[r].calls = 0
    /\ ~req[r].late /\ Processed = 2
    /\ Rec(1).titleHash = req[r].hash /\ Rec(2).titleHash = req[r].hash
    /\ Rec(1).entry # Rec(2).entry
    /\ req[r].meta = Rec(2).entry

\* The position in its block of the page an entry names, 0 when the archive
\* holds no such page.
PosInBlock(e) ==
  IF e.seek \in BlockOffsets
       /\ \E j \in 1..Len(BlockDocs(e.seek)) : BlockDocs(e.seek)[j].ID = e.id
  THEN CHOOSE j \in 1..Len(BlockDocs(e.seek)) : BlockDocs(e.seek)[j].ID = e.id
  ELSE 0

\* The records inserted so far list each block's pages in archive order:
\* the j-th record with a block's offset names the j-th page of that block.
InOrder ==
  \A k \in 1..Processed :
    LET e == Rec(k).entry
        j == Cardinality({m \in 1..k : Rec(m).entry.seek = e.seek})
    IN  /\ e.seek \in BlockOffsets
        /\ j <= Len(BlockDocs(e.seek))
        /\ BlockDocs(e.seek)[j].ID = e.id

\* C20: when the index lists each block's records in archive order, then
\* whenever the loader does not hold the mutex every entry of offsets has a
\* count at its offset that reaches the position of its page in the block,
\* and a lookup by title or at random, at any point of the load, that gets
\* as far as readArticle returns a page and never "failed to find page".
C20_CountCoversPosition ==
  InOrder =>
    /\ (mu # "loader") =>
         \A h \in DOMAIN offsets :
           MapGet(offsetSize, offsets[h].seek, 0) >= PosInBlock(offsets[h])
    /\ \A r \in DOMAIN req :
         (req[r].op \in {"search", "random"} /\ ReadDone(r))
           => (req[r].res = "ok" /\ req[r].maxTries >= PosInBlock(req[r].meta))

\* C20 witness: a lookup of "ab" issued and answered while only the first of
\* two records is inserted, with a try bound of 1.
C20_Witness ==
  \E r \in DOMAIN req :
    /\ InOrder /\ Len(lines) = 2 /\ Processed = 1 /\ pcL \in {"scan", "lock", "put", "inc"}
    /\ req[r].op = "search" /\ ReadDone(r) /\ ~req[r].late
    /\ req[r].res = "ok" /\ req[r].maxTries = 1 /\ req[r].meta = indexEntry(1, 10)

=============================================================================
